---- MODULE Spec2Model ----
(***************************************************************************)
(* Model of examsplit: the batch orchestration of scripts/batch-process.js *)
(* (main, processBatch, processWithRetry, saveState/loadState) and the     *)
(* box deduplication of cropAndStitchImage (scripts/split.js) with         *)
(* isContained (shared/canvas-utils.js).                                   *)
(*                                                                         *)
(* JavaScript runs every callback to completion, so one action is one      *)
(* callback (or one continuation of an async function between two awaits). *)
(* What happens outside the JavaScript thread is an action of its own: the *)
(* document pipeline ending, a file write reaching the disk, a timer       *)
(* expiring, a SIGINT arriving.                                            *)
(***************************************************************************)
EXTENDS Integers, Sequences, FiniteSets, TLC

\* ------------------------------------------------------------------ bounds
\* Number of PDF files in the input directory (paths 1..NumFiles, in the
\* order readdir lists them).
NumFiles == 2
\* Largest value of the --concurrency option that is explored (from 0).
MaxConcurrency == 2
\* Largest value of the --retries option that is explored (from 1).
MaxRetriesOpt == 2

\* ------------------------------------------------------- program constants
\* batch-process.js:204  const maxRounds = 10
maxRounds == 10

Files == 1..NumFiles

\* How the pipeline (processPdf) behaves for a document: it succeeds on
\* every attempt, throws on every attempt, or either on each attempt.
Behaviours == {"ok", "fail", "flaky"}

VARIABLES
    \* command line (main's options) and the environment
    concurrency, maxRetries, force, outcome,
    \* main
    phase, roundNumber, previousFailedCount, interrupted,
    \* the documents in results.failed of the round that set previousFailedCount
    previousFailed,
    \* the file system: the state file and the output archives
    file, outputs,
    \* one call of processBatch
    state, pdfFiles, index, activeCount, results, resolved,
    \* one call of processWithRetry per file of the round
    pc, attempt, writes, waitTime

optVars   == <<concurrency, maxRetries, force, outcome>>
mainVars  == <<phase, roundNumber, previousFailedCount, interrupted, previousFailed>>
fsVars    == <<file, outputs>>
batchVars == <<state, pdfFiles, index, activeCount, results, resolved>>
jobVars   == <<pc, attempt, writes, waitTime>>
schedVars == <<optVars, mainVars, fsVars, batchVars, jobVars>>

\* cropAndStitchImage: the boxes of one detection, the indices of the two
\* loops of the deduplication, the boxes kept, and the fragments drawn.
VARIABLES stage, boxes, bi, bj, indicesToDrop, finalBoxes, fragIndex, composited

\* cropAndStitchImage: the size of the page image, the settings, for each
\* kept box the ink its crop has at its four edges, the canvas created, the
\* y of the next fragment, and the value returned as `final`.
VARIABLES originalWidth, originalHeight, settings, runs, canvas, currentY, final

pageVars == <<originalWidth, originalHeight, settings, runs>>
canvasVars == <<canvas, currentY, final>>
dedupVars == <<stage, boxes, bi, bj, indicesToDrop, finalBoxes, fragIndex, composited,
               pageVars, canvasVars>>

\* getTrimmedBounds: the crop (its size and its ink pixels), the position in
\* the function, its four locals, the rectangles returned so far, and for
\* each of them whether every edge stopped at a row or column without ink.
VARIABLES tw, th, ink, tstage, top, bottom, left, right, returned, cleanStops

trimVars == <<tw, th, ink, tstage, top, bottom, left, right, returned, cleanStops>>

\* processPdf: the pages of the document (for each page the detections the
\* model answers with), the page and the detection being processed, the
\* detections of the page, the attempts and the wait of
\* detectQuestionsOnPage, the position in the function, the question
\* images, the warnings logged, and whether the archive has been written.
VARIABLES pages, pageNum, detections, detIndex, dAttempt, dWait, pstage,
          allQuestions, warnings, zipWritten

pdfVars == <<pages, pageNum, detections, detIndex, dAttempt, dWait, pstage,
             allQuestions, warnings, zipWritten>>

\* The post-processing of processPdf: the question images with the sizes
\* of their images, the position in the post-processing, the index of the
\* loop that runs, maxWidth, and the list alignImageWidths builds.
VARIABLES questions, astage, aidx, maxWidth, aligned

alignVars == <<questions, astage, aidx, maxWidth, aligned>>

\* The variables an action of the scheduler leaves alone, and the same for
\* the actions of cropAndStitchImage, of getTrimmedBounds and of processPdf.
notSchedVars == <<dedupVars, trimVars, pdfVars, alignVars>>
notDedupVars == <<schedVars, trimVars, pdfVars, alignVars>>
notTrimVars == <<schedVars, dedupVars, pdfVars, alignVars>>
notPdfVars == <<schedVars, dedupVars, trimVars, alignVars>>
notAlignVars == <<schedVars, dedupVars, trimVars, pdfVars>>
vars == <<schedVars, dedupVars, trimVars, pdfVars, alignVars>>

\* ------------------------------------------------------------- BatchState
\* completed[p]: how often p occurs in the array `completed` (the order of
\* the array is read nowhere); failed[p]: the `attempts` field of failed[p],
\* 0 when the key is absent.  lastError and lastAttempt are not modelled.
EmptyState == [completed |-> [p \in Files |-> 0], failed |-> [p \in Files |-> 0]]

\* The state file: absent, the JSON text of a BatchState, or bytes of two
\* overlapping writes (no valid JSON).
NoFile == [tag |-> "absent"]
TornFile == [tag |-> "torn"]
JSONstringify(st) == [tag |-> "json", content |-> st]

\* loadState: the parsed file; any error (no file, no valid JSON) gives the
\* empty state.
loadState(f) == IF f.tag = "json" THEN f.content ELSE EmptyState

\* processWithRetry, lines 99-100: state.completed.push(pdfPath);
\* delete state.failed[pdfPath]
MarkCompleted(st, p) ==
    [completed |-> [st.completed EXCEPT ![p] = @ + 1],
     failed    |-> [st.failed EXCEPT ![p] = 0]]

\* processWithRetry, lines 109-113: state.failed[pdfPath] = {attempts: attempt, ...}
MarkFailed(st, p, att) == [st EXCEPT !.failed[p] = att]

\* No write in flight for a job.
NoWrite == [tag |-> "none"]

\* saveState(state): the text is built when saveState is called; fs.writeFile
\* then runs outside the JavaScript thread.  A write that is in flight
\* together with another write of the same file is marked overlapped.
InFlight == {j \in Files : writes[j].tag = "write"}

saveState(st, j) ==
    [k \in Files |->
        IF k = j THEN [tag |-> "write", text |-> JSONstringify(st),
                       overlapped |-> InFlight \ {j} # {}]
        ELSE IF writes[k].tag = "write" THEN [writes[k] EXCEPT !.overlapped = TRUE]
        ELSE writes[k]]

\* isProcessed: the output archive of p exists.
isProcessed(p) == p \in outputs

\* getPdfFiles: the directory listing.
allPdfFiles == [i \in 1..NumFiles |-> i]

\* A filter that keeps every listed file, as with --force.
AllFilesPending == allPdfFiles

\* main, lines 226-238: the files handed to processBatch.
PendingFiles ==
    IF force THEN allPdfFiles
    ELSE SelectSeq(allPdfFiles, LAMBDA p : ~isProcessed(p))

SeqToSet(s) == {s[i] : i \in 1..Len(s)}

\* --------------------------------------------------------- processBatch
\* A dispatch loop that tests the counter with <= : one job too many.
CanDispatchOffByOne(ac, idx, total) == ac <= concurrency /\ idx < total

\* Line 144 with a concurrency below 1 taken as 1.
CanDispatchFloorOne(ac, idx, total) == (ac < concurrency \/ ac < 1) /\ idx < total

\* Line 144 with one job at a time, whatever the concurrency.
CanDispatchSerial(ac, idx, total) == ac < 1 /\ idx < total

\* processNext, line 144: the condition of the dispatch loop.
CanDispatch(ac, idx, total) == ac < concurrency /\ idx < total

\* processNext, lines 144-166: the dispatch loop; gives the counters after
\* the loop and the files whose processWithRetry was called.
RECURSIVE DispatchLoop(_, _, _, _)
DispatchLoop(ac, idx, files, started) ==
    IF CanDispatch(ac, idx, Len(files))
    THEN DispatchLoop(ac + 1, idx + 1, files, started \cup {files[idx + 1]})
    ELSE [activeCount |-> ac, index |-> idx, started |-> started]

\* Line 139 without the test of activeCount.
AllDispatched(ac, idx, total) == idx >= total

\* processNext, line 139: the condition under which the batch promise resolves.
BatchFinished(ac, idx, total) == idx >= total /\ ac = 0

\* processNext as a whole: resolve and return, or run the dispatch loop.
processNext(ac, idx, files) ==
    IF BatchFinished(ac, idx, Len(files))
    THEN [activeCount |-> ac, index |-> idx, started |-> {}, resolved |-> TRUE]
    ELSE [DispatchLoop(ac, idx, files, {}) EXCEPT !.started = @] @@ [resolved |-> FALSE]

\* A job whose processWithRetry has been called and whose .finally callback
\* has not run yet.
Running == {j \in Files : pc[j] \in {"running", "savingOk", "savingErr", "backoff"}}

\* saveState called without await: the job goes on while the write runs.
SaveNotAwaited(j) == TRUE

\* ------------------------------------------------------- processWithRetry
\* Lines 101 and 114, `await saveState(state)`: the job resumes only when the
\* write it started has finished.
SaveSettled(j) == writes[j] = NoWrite

\* Line 116 with <= for <: a delay and another attempt follow the last
\* failed attempt too.
RetryAgainOnceMore(att) == att <= maxRetries
\* Line 116: a backoff delay and another attempt follow a failed attempt.
RetryAgain(att) == att < maxRetries

\* Math.pow(2, n)
Pow2(n) == 2 ^ n

\* Line 117: const waitTime = Math.pow(2, attempt) * 1000
backoffWaitTime(att) == Pow2(att) * 1000

\* A job that rejects on failure instead of returning {success: false}: the
\* .then callback is skipped and the failure is in no list.
ThenCallbackSkipsFailure(res, j, ok) ==
    IF ok THEN [res EXCEPT !.success = Append(@, j)] ELSE res

\* processBatch, lines 153-161, the .then callback: the result of a job is
\* added to results.success or results.failed.
ThenCallback(res, j, ok) ==
    IF ok THEN [res EXCEPT !.success = Append(@, j)]
    ELSE [res EXCEPT !.failed = Append(@, j)]

\* A round loop without the no-progress test.
NoProgressIgnored(failedCount, previous) == FALSE

\* main, line 279: the round made no progress.
NoProgress(failedCount, previous) == failedCount = previous

\* main, line 208: the condition of the round loop.
RoundLoopCondition == roundNumber <= maxRounds /\ ~interrupted

\* --------------------------------------------------------------- Init
\* No state file and no output archive on the disk.
CleanDisk ==
    /\ file = NoFile
    /\ outputs = {}

\* main before its first statement.
MainStart ==
    /\ phase = "loop"
    /\ roundNumber = 1
    /\ previousFailedCount = -1
    /\ previousFailed = {}
    /\ interrupted = FALSE
    /\ state = EmptyState
    /\ pdfFiles = <<>>
    /\ index = 0
    /\ activeCount = 0
    /\ results = [success |-> <<>>, failed |-> <<>>]
    /\ resolved = FALSE
    /\ pc = [j \in Files |-> "none"]
    /\ attempt = [j \in Files |-> 0]
    /\ writes = [j \in Files |-> NoWrite]
    /\ waitTime = [j \in Files |-> 0]

\* main before its first statement, in a directory without state file and
\* without output archive.
SchedStart ==
    /\ CleanDisk
    /\ MainStart

\* The state file an earlier run has left when it completed the documents
\* of `finished` and failed on the others.
LeftBy(finished) ==
    JSONstringify([completed |-> [p \in Files |-> IF p \in finished THEN 1 ELSE 0],
                   failed    |-> [p \in Files |-> IF p \in finished THEN 0 ELSE 1]])

\* main before its first statement, without --force, in a directory where
\* earlier runs have left output archives and possibly a state file.
ResumeInit ==
    /\ concurrency \in 0..MaxConcurrency
    /\ maxRetries \in 1..MaxRetriesOpt
    /\ force = FALSE
    /\ outcome \in [Files -> Behaviours]
    /\ outputs \in SUBSET Files
    /\ file \in {NoFile} \cup {LeftBy(finished) : finished \in SUBSET outputs}
    /\ MainStart

\* The same with any integer that parseInt gives for --concurrency (line
\* 333), a negative one included.
AnyConcurrencyInit ==
    /\ concurrency \in -1..MaxConcurrency
    /\ maxRetries \in 1..MaxRetriesOpt
    /\ force = FALSE
    /\ outcome \in [Files -> Behaviours]
    /\ outputs \in SUBSET Files
    /\ file \in {NoFile} \cup {LeftBy(finished) : finished \in SUBSET outputs}
    /\ MainStart

\* The command line and the behaviour of the pipeline are the inputs.
SchedInit ==
    /\ concurrency \in 0..MaxConcurrency
    /\ maxRetries \in 1..MaxRetriesOpt
    /\ force \in BOOLEAN
    /\ outcome \in [Files -> Behaviours]
    /\ SchedStart

\* The scheduler in a specification that does not run it.
SchedIdle ==
    /\ concurrency = 1
    /\ maxRetries = 1
    /\ force = FALSE
    /\ outcome = [j \in Files |-> "ok"]
    /\ SchedStart

\* --------------------------------------------------------------- main
\* Line 208: the test of the while loop.
LoopTest ==
    /\ phase = "loop"
    /\ phase' = IF RoundLoopCondition THEN "prep" ELSE "done"
    /\ UNCHANGED <<notSchedVars, optVars, roundNumber, previousFailedCount, previousFailed, interrupted,
                   fsVars, batchVars, jobVars>>

\* Lines 214-257: list the directory, load the state, filter the processed
\* files and call processBatch, whose first processNext() starts the first
\* jobs; each processWithRetry runs up to its first `await processPdf`.
StartRound ==
    /\ phase = "prep"
    /\ state' = loadState(file)
    /\ LET files == PendingFiles IN
        IF Len(files) = 0
        THEN /\ phase' = "done"
             /\ UNCHANGED <<pdfFiles, index, activeCount, results, resolved, jobVars>>
        ELSE LET d == processNext(0, 0, files) IN
             /\ phase' = "batch"
             /\ pdfFiles' = files
             /\ index' = d.index
             /\ activeCount' = d.activeCount
             /\ resolved' = d.resolved
             /\ results' = [success |-> <<>>, failed |-> <<>>]
             /\ pc' = [j \in Files |->
                        IF j \in d.started THEN "running"
                        ELSE IF j \in SeqToSet(files) THEN "pending" ELSE "none"]
             /\ attempt' = [j \in Files |-> IF j \in d.started THEN 1 ELSE 0]
             /\ UNCHANGED <<writes, waitTime>>
    /\ UNCHANGED <<notSchedVars, optVars, roundNumber, previousFailedCount, previousFailed, interrupted, fsVars>>

\* Lines 259-310: the summary after `await processBatch`.
RoundEnd ==
    /\ phase = "batch"
    /\ resolved
    /\ LET failedCount == Len(results.failed) IN
        IF failedCount > 0
        THEN IF NoProgress(failedCount, previousFailedCount)
             THEN /\ phase' = "done"
                  /\ UNCHANGED <<roundNumber, previousFailedCount, previousFailed, file>>
             ELSE /\ previousFailedCount' = failedCount
                  /\ previousFailed' = SeqToSet(results.failed)
                  /\ IF interrupted
                     THEN phase' = "done" /\ UNCHANGED roundNumber
                     ELSE phase' = "delay" /\ roundNumber' = roundNumber + 1
                  /\ UNCHANGED file
        ELSE /\ file' = NoFile
             /\ phase' = "done"
             /\ UNCHANGED <<roundNumber, previousFailedCount, previousFailed>>
    /\ UNCHANGED <<notSchedVars, optVars, interrupted, outputs, batchVars, jobVars>>

\* Lines 298 and 313-316: the delay before the next round ends; the safety
\* check on the number of rounds.
DelayExpires ==
    /\ phase = "delay"
    /\ phase' = IF roundNumber > maxRounds THEN "done" ELSE "loop"
    /\ UNCHANGED <<notSchedVars, optVars, roundNumber, previousFailedCount, previousFailed, interrupted,
                   fsVars, batchVars, jobVars>>

\* Lines 191-199, the SIGINT handler, first signal.
Interrupt ==
    /\ phase \notin {"done", "exited"}
    /\ ~interrupted
    /\ interrupted' = TRUE
    /\ UNCHANGED <<notSchedVars, optVars, phase, roundNumber, previousFailedCount, previousFailed,
                   fsVars, batchVars, jobVars>>

\* Lines 192-195, the SIGINT handler, second signal: process.exit(1).  A
\* write that is in flight is abandoned; it has left the file alone or has
\* truncated it.
ForceExit ==
    /\ phase \notin {"done", "exited"}
    /\ interrupted
    /\ phase' = "exited"
    /\ \E f \in {file} \cup (IF InFlight # {} THEN {TornFile} ELSE {}) : file' = f
    /\ writes' = [j \in Files |-> NoWrite]
    /\ UNCHANGED <<notSchedVars, optVars, roundNumber, previousFailedCount, previousFailed, interrupted,
                   outputs, batchVars, pc, attempt, waitTime>>

\* ----------------------------------------------------------- the jobs
\* processPdf resolves (it has written the output archive); lines 98-101.
PipelineSucceeds(j) ==
    /\ phase = "batch"
    /\ pc[j] = "running"
    /\ outcome[j] # "fail"
    /\ outputs' = outputs \cup {j}
    /\ state' = MarkCompleted(state, j)
    /\ writes' = saveState(state', j)
    /\ pc' = [pc EXCEPT ![j] = "savingOk"]
    /\ UNCHANGED <<notSchedVars, optVars, mainVars, file, pdfFiles, index, activeCount,
                   results, resolved, attempt, waitTime>>

\* processPdf rejects; lines 104-114.
PipelineFails(j) ==
    /\ phase = "batch"
    /\ pc[j] = "running"
    /\ outcome[j] # "ok"
    /\ state' = MarkFailed(state, j, attempt[j])
    /\ writes' = saveState(state', j)
    /\ pc' = [pc EXCEPT ![j] = "savingErr"]
    /\ UNCHANGED <<notSchedVars, optVars, mainVars, fsVars, pdfFiles, index, activeCount,
                   results, resolved, attempt, waitTime>>

\* fs.writeFile of saveState finishes: the file holds the text of this write.
WriteLands(j) ==
    /\ phase = "batch"
    /\ writes[j].tag = "write"
    /\ file' = writes[j].text
    /\ writes' = [writes EXCEPT ![j] = NoWrite]
    /\ UNCHANGED <<notSchedVars, optVars, mainVars, outputs, batchVars, pc, attempt,
                   waitTime>>

\* fs.writeFile of saveState finishes after it overlapped with another
\* write of the same file: each write opens the file, truncates it and
\* writes from offset 0, so the file can be left with bytes of both.
WriteTears(j) ==
    /\ phase = "batch"
    /\ writes[j].tag = "write"
    /\ writes[j].overlapped
    /\ file' = TornFile
    /\ writes' = [writes EXCEPT ![j] = NoWrite]
    /\ UNCHANGED <<notSchedVars, optVars, mainVars, outputs, batchVars, pc, attempt,
                   waitTime>>

\* The job's result reaches processBatch: the .then callback (lines
\* 153-161) and the .finally callback (lines 162-165) with its processNext().
JobSettles(j, ok) ==
    LET d == processNext(activeCount - 1, index, pdfFiles) IN
    /\ results' = ThenCallback(results, j, ok)
    /\ activeCount' = d.activeCount
    /\ index' = d.index
    /\ resolved' = d.resolved
    /\ pc' = [k \in Files |->
                IF k = j THEN (IF ok THEN "succeeded" ELSE "failed")
                ELSE IF k \in d.started THEN "running" ELSE pc[k]]
    /\ attempt' = [k \in Files |-> IF k \in d.started THEN 1 ELSE attempt[k]]

\* `await saveState` returns after a successful attempt: line 103.
SaveReturnsOk(j) ==
    /\ phase = "batch"
    /\ pc[j] = "savingOk"
    /\ SaveSettled(j)
    /\ JobSettles(j, TRUE)
    /\ UNCHANGED <<notSchedVars, optVars, mainVars, fsVars, state, pdfFiles, writes,
                   waitTime>>

\* `await saveState` returns after a failed attempt: lines 116-125.
SaveReturnsErr(j) ==
    /\ phase = "batch"
    /\ pc[j] = "savingErr"
    /\ SaveSettled(j)
    /\ IF RetryAgain(attempt[j])
       THEN /\ pc' = [pc EXCEPT ![j] = "backoff"]
            /\ waitTime' = [waitTime EXCEPT ![j] = backoffWaitTime(attempt[j])]
            /\ UNCHANGED <<index, activeCount, results, resolved, attempt>>
       ELSE /\ JobSettles(j, FALSE)
            /\ UNCHANGED waitTime
    /\ UNCHANGED <<notSchedVars, optVars, mainVars, fsVars, state, pdfFiles, writes>>

\* The backoff timer of line 120 fires; line 93 starts the next attempt.
BackoffExpires(j) ==
    /\ phase = "batch"
    /\ pc[j] = "backoff"
    /\ attempt' = [attempt EXCEPT ![j] = @ + 1]
    /\ waitTime' = [waitTime EXCEPT ![j] = 0]
    /\ pc' = [pc EXCEPT ![j] = "running"]
    /\ UNCHANGED <<notSchedVars, optVars, mainVars, fsVars, batchVars, writes>>

\* ========================================================= getTrimmedBounds
\* (src/unnamed/part_001, lines 488-543)

\* Largest width and height of a crop given to getTrimmedBounds (from 0),
\* and largest number of ink pixels in it.
MaxDim == 5
MaxInk == 2

\* The pixels of a crop of w by h, as <<x, y>>.
Pixels(w, h) == (0..(w - 1)) \X (0..(h - 1))

\* The crops of w by h with at most MaxInk ink pixels, each given by the
\* set of its ink pixels.
InkSets(w, h) ==
    UNION {{{f[i] : i \in 1..k} : f \in [1..k -> Pixels(w, h)]} : k \in 0..MaxInk}

\* Lines 499 and 509: the pixel is opaque and one channel is below the
\* threshold.
isInk(x, y) == <<x, y>> \in ink

\* Lines 496-504: the row is scanned over the whole width of the crop.
rowHasInk(y) == \E x \in 0..(tw - 1) : isInk(x, y)

\* Lines 506-514: the column is scanned over the whole height of the crop.
colHasInk(x) == \E y \in 0..(th - 1) : isInk(x, y)

\* Lines 516-517: Math.floor(h * 0.3) and Math.floor(w * 0.3).
SafetyCapOff(d) == (3 * d) \div 10 + 1
SafetyCap(d) == (3 * d) \div 10
SAFETY_Y == SafetyCap(th)
SAFETY_X == SafetyCap(tw)

\* The conditions of the four while loops, lines 525, 528, 531 and 534.
PeelsToCap == top < SAFETY_Y
PeelTopCond == top < SAFETY_Y /\ rowHasInk(top)
PeelBottomCond == bottom > th - SAFETY_Y /\ bottom > top /\ rowHasInk(bottom - 1)
PeelLeftCond == left < SAFETY_X /\ colHasInk(left)
PeelRightCond == right > tw - SAFETY_X /\ right > left /\ colHasInk(right - 1)

\* Lines 536-541: the rectangle returned.
Max(a, b) == IF a >= b THEN a ELSE b
Min(a, b) == IF a <= b THEN a ELSE b
TrimRect == [x |-> left, y |-> top, w |-> Max(0, right - left), h |-> Max(0, bottom - top)]
ZeroRect == [x |-> 0, y |-> 0, w |-> 0, h |-> 0]

\* Every loop of the call has stopped in front of a row or column without
\* ink (and not only because of its limit).
CleanStop ==
    /\ ~rowHasInk(top)
    /\ ~rowHasInk(bottom - 1)
    /\ ~colHasInk(left)
    /\ ~colHasInk(right - 1)

\* The sub-image a rectangle selects from the crop: its ink pixels, in the
\* coordinates of the sub-image.
subImage(r) ==
    {<<p[1] - r.x, p[2] - r.y>> :
        p \in {q \in ink : /\ q[1] >= r.x /\ q[1] < r.x + r.w
                           /\ q[2] >= r.y /\ q[2] < r.y + r.h}}

TrimStart ==
    /\ tstage = "start"
    /\ top = 0
    /\ bottom = 0
    /\ left = 0
    /\ right = 0
    /\ returned = <<>>
    /\ cleanStops = <<>>

TrimInit ==
    /\ tw \in 0..MaxDim
    /\ th \in 0..MaxDim
    /\ ink \in InkSets(tw, th)
    /\ TrimStart

\* getTrimmedBounds in a specification that does not run it.
TrimIdle == tw = 0 /\ th = 0 /\ ink = {} /\ TrimStart

\* Line 491: an empty crop has an empty rectangle.
TrimEmpty ==
    /\ tstage = "start"
    /\ (tw <= 0 \/ th <= 0)
    /\ returned' = Append(returned, ZeroRect)
    /\ cleanStops' = Append(cleanStops, TRUE)
    /\ tstage' = "done"
    /\ UNCHANGED <<notTrimVars, tw, th, ink, top, bottom, left, right>>

\* Lines 519-522: the four locals.
TrimBegin ==
    /\ tstage = "start"
    /\ ~(tw <= 0 \/ th <= 0)
    /\ top' = 0
    /\ bottom' = th
    /\ left' = 0
    /\ right' = tw
    /\ tstage' = "top"
    /\ UNCHANGED <<notTrimVars, tw, th, ink, returned, cleanStops>>

\* Line 525: one test of the first loop, and its body.
PeelTop ==
    /\ tstage = "top"
    /\ top' = IF PeelTopCond THEN top + 1 ELSE top
    /\ tstage' = IF PeelTopCond THEN "top" ELSE "bottom"
    /\ UNCHANGED <<notTrimVars, tw, th, ink, bottom, left, right, returned, cleanStops>>

\* Line 528.
PeelBottom ==
    /\ tstage = "bottom"
    /\ bottom' = IF PeelBottomCond THEN bottom - 1 ELSE bottom
    /\ tstage' = IF PeelBottomCond THEN "bottom" ELSE "left"
    /\ UNCHANGED <<notTrimVars, tw, th, ink, top, left, right, returned, cleanStops>>

\* Line 531.
PeelLeft ==
    /\ tstage = "left"
    /\ left' = IF PeelLeftCond THEN left + 1 ELSE left
    /\ tstage' = IF PeelLeftCond THEN "left" ELSE "right"
    /\ UNCHANGED <<notTrimVars, tw, th, ink, top, bottom, right, returned, cleanStops>>

\* Line 534.
PeelRight ==
    /\ tstage = "right"
    /\ right' = IF PeelRightCond THEN right - 1 ELSE right
    /\ tstage' = IF PeelRightCond THEN "right" ELSE "return"
    /\ UNCHANGED <<notTrimVars, tw, th, ink, top, bottom, left, returned, cleanStops>>

\* Lines 536-541.
TrimReturn ==
    /\ tstage = "return"
    /\ returned' = Append(returned, TrimRect)
    /\ cleanStops' = Append(cleanStops, CleanStop)
    /\ tstage' = "done"
    /\ UNCHANGED <<notTrimVars, tw, th, ink, top, bottom, left, right>>

\* The function is called again, on the sub-image its result selects.
Reapply ==
    /\ tstage = "done"
    /\ Len(returned) = 1
    /\ tw' = returned[1].w
    /\ th' = returned[1].h
    /\ ink' = subImage(returned[1])
    /\ tstage' = "start"
    /\ UNCHANGED <<notTrimVars, top, bottom, left, right, returned, cleanStops>>

TrimNext ==
    \/ TrimEmpty
    \/ TrimBegin
    \/ PeelTop
    \/ PeelBottom
    \/ PeelLeft
    \/ PeelRight
    \/ TrimReturn
    \/ Reapply

\* ============================================================ deduplication
\* canvas-utils.js (part_001:556): const tolerance = 5
tolerance == 5

\* Largest number of boxes in one detection.
MaxBoxes == 3

\* Boxes [ymin, xmin, ymax, xmax] in the 0-1000 space: edges that differ by
\* less than the tolerance, by more than it, and a box apart from the rest.
BoxSet ==
    {<<y0, x0, 100, x1>> : y0 \in {0, 4}, x0 \in {0, 4, 8}, x1 \in {100, 300}}
        \cup {<<200, 0, 300, 100>>}

BoxLists == UNION {[1..n -> BoxSet] : n \in 0..MaxBoxes}

\* isContained(a, b): box a lies in box b, within the tolerance.
isContained(a, b) ==
    /\ a[2] >= b[2] - tolerance
    /\ a[4] <= b[4] + tolerance
    /\ a[1] >= b[1] - tolerance
    /\ a[3] <= b[3] + tolerance

\* A deduplication that drops only on strict containment: of two
\* near-duplicates neither is dropped.
DropsStrictOnly(bs, i, j) ==
    isContained(bs[i + 1], bs[j + 1]) /\ ~isContained(bs[j + 1], bs[i + 1])

\* A deduplication whose tie-break tests i < j: of two near-duplicates the
\* earlier one is dropped.
DropsEarlier(bs, i, j) ==
    /\ isContained(bs[i + 1], bs[j + 1])
    /\ (~isContained(bs[j + 1], bs[i + 1]) \/ i < j)

\* split.js lines 336-343, the body of the inner loop for the pair (i, j) of
\* 0-based indices: box i is added to indicesToDrop.
DropsBox(bs, i, j) ==
    IF isContained(bs[i + 1], bs[j + 1])
    THEN IF isContained(bs[j + 1], bs[i + 1]) /\ i > j THEN TRUE
         ELSE IF ~isContained(bs[j + 1], bs[i + 1]) THEN TRUE
         ELSE FALSE
    ELSE FALSE

\* A filter that collects the kept boxes with unshift: the order is reversed.
RECURSIVE filterBoxesReversed(_, _, _)
filterBoxesReversed(bs, drop, k) ==
    IF k >= Len(bs) THEN <<>>
    ELSE IF k \in drop THEN filterBoxesReversed(bs, drop, k + 1)
    ELSE filterBoxesReversed(bs, drop, k + 1) \o <<bs[k + 1]>>

\* split.js line 348: boxes.filter((_, i) => !indicesToDrop.has(i)), the
\* callback applied to the indices from k on, in order.
RECURSIVE filterBoxes(_, _, _)
filterBoxes(bs, drop, k) ==
    IF k >= Len(bs) THEN <<>>
    ELSE IF k \in drop THEN filterBoxes(bs, drop, k + 1)
    ELSE <<bs[k + 1]>> \o filterBoxes(bs, drop, k + 1)

\* split.js line 386: const fragmentGap = 10
fragmentGap == 10

\* The settings of a call: the defaults (split.js lines 623-626), the
\* defaults with --crop-padding 0, and both with canvas paddings.
DefaultSettings ==
    [cropPadding |-> 25, canvasPaddingLeft |-> 0, canvasPaddingRight |-> 0,
     canvasPaddingY |-> 0]
SettingsSet ==
    {[cropPadding |-> c, canvasPaddingLeft |-> p[1], canvasPaddingRight |-> p[2],
      canvasPaddingY |-> p[3]] : c \in {0, 25}, p \in {<<0, 0, 0>>, <<10, 30, 20>>}}

\* The widths and the heights of the page image, in pixels.
PageWidths == {1000, 2000}
PageHeights == {1000}

\* (v / 1000) * dim, for a coordinate v of the 0-1000 space; the sizes of
\* the page are multiples of 1000, so the product is an integer.
Scaled(v, dim) == (v * dim) \div 1000

\* What the image shows at the edges of one crop: the numbers of consecutive
\* columns with ink from its left and right edges and of consecutive rows
\* with ink from its top and bottom edges.
NoInk == [l |-> 0, t |-> 0, r |-> 0, b |-> 0]
RunSet == {NoInk, [l |-> 3, t |-> 2, r |-> 0, b |-> 1]}

\* Boxes of a detection that do not contain one another: two columns of
\* text, a box of no height, a box of no width, and a box in the
\* bottom-right corner of the page.
StitchBoxSet ==
    {<<100, 40, 200, 500>>, <<300, 10, 400, 300>>, <<500, 600, 500, 800>>,
     <<600, 700, 700, 700>>, <<800, 900, 1000, 1000>>}

StitchBoxLists == UNION {[1..n -> StitchBoxSet] : n \in 0..MaxBoxes}

\* getTrimmedBounds (part_001:488-543) on a crop of width by height, both
\* integers, whose edges have the runs of ink `run`: each loop peels rows or
\* columns while they have ink and its limit is not reached.
getTrimmedBounds(run, width, height) ==
    IF width <= 0 \/ height <= 0 THEN ZeroRect
    ELSE LET t == Min(run.t, SafetyCap(height))
             b == height - Min(run.b, SafetyCap(height))
             l == Min(run.l, SafetyCap(width))
             r == width - Min(run.r, SafetyCap(width))
         IN [x |-> l, y |-> t, w |-> Max(0, r - l), h |-> Max(0, b - t)]

\* split.js lines 358-376, the callback of map: the crop of one box, its
\* trim, and the x of its ink on the page.
Fragment(box, run) ==
    LET ymin == box[1]
        xmin == box[2]
        ymax == box[3]
        xmax == box[4]
        x == Max(0, Scaled(xmin, originalWidth) - settings.cropPadding)
        y == Max(0, Scaled(ymin, originalHeight) - settings.cropPadding)
        rawW == Scaled(xmax - xmin, originalWidth) + settings.cropPadding * 2
        rawH == Scaled(ymax - ymin, originalHeight) + settings.cropPadding * 2
        w == Min(originalWidth - x, rawW)
        h == Min(originalHeight - y, rawH)
        trim == getTrimmedBounds(run, w, h)
    IN [box |-> box, x |-> x, y |-> y, w |-> w, h |-> h, trim |-> trim,
        absInkX |-> x + trim.x]

\* Line 377, filter(Boolean): an element is kept when it is truthy, and
\* every object is.
Truthy(f) == TRUE
filterBoolean(frs) == SelectSeq(frs, Truthy)

\* split.js lines 357-377: one fragment per kept box, in the order of
\* finalBoxes (map keeps the order, and so does filter).
processedFragments(fb) ==
    filterBoolean([k \in 1..Len(fb) |-> Fragment(fb[k], runs[k])])

SetMin(S) == CHOOSE m \in S : \A v \in S : m <= v
SetMax(S) == CHOOSE m \in S : \A v \in S : m >= v

\* Line 383, with the first fragment's x taken as the smallest.
minAbsInkXOfFirst(frs) == frs[1].absInkX
\* Line 383.
minAbsInkX(frs) == SetMin({frs[k].absInkX : k \in 1..Len(frs)})
\* Line 384.
maxRightEdge(frs) ==
    SetMax({(frs[k].absInkX - minAbsInkX(frs)) + frs[k].trim.w : k \in 1..Len(frs)})
\* Line 385.
finalWidth(frs) ==
    maxRightEdge(frs) + settings.canvasPaddingLeft + settings.canvasPaddingRight
\* Lines 387-389.
RECURSIVE sumTrimH(_, _)
sumTrimH(frs, k) == IF k > Len(frs) THEN 0 ELSE frs[k].trim.h + sumTrimH(frs, k + 1)
totalContentHeight(frs) == sumTrimH(frs, 1) + fragmentGap * Max(0, Len(frs) - 1)
finalHeight(frs) == totalContentHeight(frs) + settings.canvasPaddingY * 2
\* Lines 398-399.
offsetX(f, frs) == settings.canvasPaddingLeft + (f.absInkX - minAbsInkX(frs))

NoCanvas == [w |-> -1, h |-> -1]

DedupStart ==
    /\ stage = "start"
    /\ bi = 0
    /\ bj = 0
    /\ indicesToDrop = {}
    /\ finalBoxes = <<>>
    /\ fragIndex = 0
    /\ composited = <<>>
    /\ canvas = NoCanvas
    /\ currentY = 0
    /\ final = "none"

\* A page of 1000 by 1000 without ink at the edges of the crops, and the
\* default settings.
PlainPage ==
    /\ originalWidth = 1000
    /\ originalHeight = 1000
    /\ settings = DefaultSettings
    /\ runs = [k \in 1..Len(boxes) |-> NoInk]

DedupInit == boxes \in BoxLists /\ PlainPage /\ DedupStart

StitchInit ==
    /\ boxes \in StitchBoxLists
    /\ originalWidth \in PageWidths
    /\ originalHeight \in PageHeights
    /\ settings \in SettingsSet
    /\ runs \in [1..Len(boxes) -> RunSet]
    /\ DedupStart

\* cropAndStitchImage in a specification that does not run it.
DedupIdle == boxes = <<>> /\ PlainPage /\ DedupStart

\* Lines 327-329: no boxes, no image.
EmptyReturn ==
    /\ stage = "start"
    /\ Len(boxes) = 0
    /\ stage' = "done"
    /\ final' = "null"
    /\ UNCHANGED <<notDedupVars, boxes, bi, bj, indicesToDrop, finalBoxes,
                   fragIndex, composited, pageVars, canvas, currentY>>

\* Lines 332-334: the loops begin.
BeginDedup ==
    /\ stage = "start"
    /\ Len(boxes) > 0
    /\ stage' = "dedup"
    /\ UNCHANGED <<notDedupVars, boxes, bi, bj, indicesToDrop, finalBoxes,
                   fragIndex, composited, pageVars, canvasVars>>

\* Lines 333-346: one pass of the inner loop, for the pair (bi, bj); a drop
\* breaks out of the inner loop.
ComparePair ==
    /\ stage = "dedup"
    /\ LET drop == bi # bj /\ DropsBox(boxes, bi, bj)
           innerDone == drop \/ bj + 1 >= Len(boxes)
           nextI == IF innerDone THEN bi + 1 ELSE bi
       IN /\ indicesToDrop' = IF drop THEN indicesToDrop \cup {bi} ELSE indicesToDrop
          /\ bi' = nextI
          /\ bj' = IF innerDone THEN 0 ELSE bj + 1
          /\ stage' = IF nextI >= Len(boxes) THEN "filter" ELSE "dedup"
    /\ UNCHANGED <<notDedupVars, boxes, finalBoxes, fragIndex, composited,
                   pageVars, canvasVars>>

\* Line 348: finalBoxes.
FilterBoxes ==
    /\ stage = "filter"
    /\ finalBoxes' = filterBoxes(boxes, indicesToDrop, 0)
    /\ stage' = "fragments"
    /\ UNCHANGED <<notDedupVars, boxes, bi, bj, indicesToDrop, fragIndex, composited,
                   pageVars, canvasVars>>

\* Lines 357-395: the fragments are cropped and trimmed; without a fragment
\* the function returns null, otherwise the canvas is created.
CreateCanvas ==
    /\ stage = "fragments"
    /\ LET frs == processedFragments(finalBoxes)
       IN IF Len(frs) = 0
          THEN /\ final' = "null"
               /\ stage' = "done"
               /\ UNCHANGED <<canvas, currentY>>
          ELSE /\ canvas' = [w |-> finalWidth(frs), h |-> finalHeight(frs)]
               /\ currentY' = settings.canvasPaddingY
               /\ stage' = "draw"
               /\ UNCHANGED final
    /\ UNCHANGED <<notDedupVars, boxes, bi, bj, indicesToDrop, finalBoxes, fragIndex,
                   composited, pageVars>>

\* Lines 397-406: forEach draws the next fragment below the ones drawn.
DrawFragment ==
    /\ stage = "draw"
    /\ fragIndex < Len(processedFragments(finalBoxes))
    /\ LET frs == processedFragments(finalBoxes)
           f == frs[fragIndex + 1]
       IN /\ composited' = Append(composited,
                [box |-> f.box, x |-> offsetX(f, frs), y |-> currentY,
                 w |-> f.trim.w, h |-> f.trim.h])
          /\ currentY' = currentY + f.trim.h + fragmentGap
    /\ fragIndex' = fragIndex + 1
    /\ UNCHANGED <<notDedupVars, stage, boxes, bi, bj, indicesToDrop, finalBoxes,
                   pageVars, canvas, final>>

\* Lines 408-440: the canvas is encoded and returned.
FinishImage ==
    /\ stage = "draw"
    /\ fragIndex >= Len(processedFragments(finalBoxes))
    /\ stage' = "done"
    /\ final' = "image"
    /\ UNCHANGED <<notDedupVars, boxes, bi, bj, indicesToDrop, finalBoxes,
                   fragIndex, composited, pageVars, canvas, currentY>>

DedupNext ==
    \/ EmptyReturn
    \/ BeginDedup
    \/ ComparePair
    \/ FilterBoxes
    \/ CreateCanvas
    \/ DrawFragment
    \/ FinishImage

\* ================================================================ processPdf
\* (src/scripts/split.js, lines 137-181 and 445-617)

\* Largest number of pages of a document, and of detections on a page.
MaxPages == 2
MaxDetections == 2

\* split.js line 137: maxRetries = 5, the default the only caller uses.
detectMaxRetries == 5

\* The ids the model gives to a detection, and what cropAndStitchImage
\* returns for it: with one box (line 499) `final` is always an image, and
\* `original` is an image when a fragment was trimmed and null otherwise
\* (lines 411-439).
DetectionIds == {"1", "continuation"}
DetectionSet == [id : DetectionIds, trimmed : BOOLEAN]
PageSet == UNION {[1..n -> DetectionSet] : n \in 0..MaxDetections}
DocumentSet == UNION {[1..n -> PageSet] : n \in 1..MaxPages}

\* An image is the list of the detections it shows, from top to bottom, each
\* as <<page, index on the page>>; null is the empty list.
NullImage == <<>>
finalOf(pn, k) == <<<<pn, k>>>>
originalOf(det, pn, k) == IF det.trimmed THEN <<<<pn, k>>>> ELSE NullImage

\* split.js lines 188-240: the top image above the bottom image.
mergeBase64Images(topImg, bottomImg) == topImg \o bottomImg

\* Lines 137-180: the kinds of failure of an attempt, and the wait after
\* the attempt-th failure (line 164).
FailureKinds == {"rateLimit", "other"}
detectWaitTime(kind, att) == IF kind = "rateLimit" THEN Pow2(att) * 1000 ELSE 2000

\* Line 173, with > for >=: the last failure does not throw.
ExhaustedOffByOne(att) == att > detectMaxRetries
\* Line 173.
Exhausted(att) == att >= detectMaxRetries

\* Lines 511-517, with the continuation merged into the first question image.
mergeIntoFirst(qs, fin, orig) ==
    [qs EXCEPT ![1] =
        [@ EXCEPT !.dataUrl = mergeBase64Images(@, fin),
                  !.originalDataUrl =
                      IF @ # NullImage /\ orig # NullImage
                      THEN mergeBase64Images(@, orig) ELSE @]]
\* Lines 511-517: lastQ is changed in place.
mergeIntoLast(qs, fin, orig) ==
    [qs EXCEPT ![Len(qs)] =
        [@ EXCEPT !.dataUrl = mergeBase64Images(@, fin),
                  !.originalDataUrl =
                      IF @ # NullImage /\ orig # NullImage
                      THEN mergeBase64Images(@, orig) ELSE @]]

\* Lines 506-530, with a continuation without a previous question added as
\* a question of its own.
afterDetectionOrphanAdded(qs, det, pn, fin, orig) ==
    IF fin = NullImage THEN qs
    ELSE IF det.id = "continuation" /\ Len(qs) > 0
         THEN mergeIntoLast(qs, fin, orig)
         ELSE Append(qs, [id |-> det.id, pageNumber |-> pn, dataUrl |-> fin,
                          originalDataUrl |-> orig])
\* Lines 506-530: allQuestions after one detection.
afterDetection(qs, det, pn, fin, orig) ==
    IF fin = NullImage THEN qs
    ELSE IF det.id = "continuation"
         THEN IF Len(qs) > 0 THEN mergeIntoLast(qs, fin, orig) ELSE qs
         ELSE Append(qs, [id |-> det.id, pageNumber |-> pn, dataUrl |-> fin,
                          originalDataUrl |-> orig])

\* Line 519: console.warn for a continuation without a previous question.
warnsOrphan(qs, det, fin) ==
    fin # NullImage /\ det.id = "continuation" /\ Len(qs) = 0

PdfStart ==
    /\ pageNum = 1
    /\ detections = <<>>
    /\ detIndex = 0
    /\ dAttempt = 0
    /\ dWait = 0
    /\ pstage = "page"
    /\ allQuestions = <<>>
    /\ warnings = 0
    /\ zipWritten = FALSE

PdfInit == pages \in DocumentSet /\ PdfStart

\* processPdf in a specification that does not run it.
PdfIdle == pages = <<>> /\ PdfStart

\* Lines 472-479 and 138: the test of the loop over the pages; a page is
\* rendered and detectQuestionsOnPage is called.
PageLoop ==
    /\ pstage = "page"
    /\ IF pageNum <= Len(pages)
       THEN /\ dAttempt' = 0
            /\ pstage' = "detect"
       ELSE /\ pstage' = "post"
            /\ UNCHANGED dAttempt
    /\ UNCHANGED <<notPdfVars, pages, pageNum, detections, detIndex, dWait,
                   allQuestions, warnings, zipWritten>>

\* Lines 141 and 180: the test of the while loop; when it fails the
\* function returns [].
DetectLoop ==
    /\ pstage = "detect"
    /\ IF dAttempt < detectMaxRetries
       THEN /\ pstage' = "calling"
            /\ UNCHANGED <<detections, detIndex>>
       ELSE /\ detections' = <<>>
            /\ detIndex' = 0
            /\ pstage' = "crop"
    /\ UNCHANGED <<notPdfVars, pages, pageNum, dAttempt, dWait, allQuestions,
                   warnings, zipWritten>>

\* Lines 144-159 and 482-492: the call answers with an array; the loop over
\* the detections begins.
DetectSucceeds ==
    /\ pstage = "calling"
    /\ detections' = pages[pageNum]
    /\ detIndex' = 0
    /\ pstage' = "crop"
    /\ UNCHANGED <<notPdfVars, pages, pageNum, dAttempt, dWait, allQuestions,
                   warnings, zipWritten>>

\* Lines 160-177 and 532-535: the call fails; after the last attempt the
\* function throws and processPdf rethrows, otherwise it waits.
DetectFails(kind) ==
    /\ pstage = "calling"
    /\ dAttempt' = dAttempt + 1
    /\ IF Exhausted(dAttempt + 1)
       THEN /\ pstage' = "threw"
            /\ UNCHANGED dWait
       ELSE /\ pstage' = "waiting"
            /\ dWait' = detectWaitTime(kind, dAttempt + 1)
    /\ UNCHANGED <<notPdfVars, pages, pageNum, detections, detIndex, allQuestions,
                   warnings, zipWritten>>

\* Line 177: the delay is over.
DetectDelayExpires ==
    /\ pstage = "waiting"
    /\ dWait' = 0
    /\ pstage' = "detect"
    /\ UNCHANGED <<notPdfVars, pages, pageNum, detections, detIndex, dAttempt,
                   allQuestions, warnings, zipWritten>>

\* Lines 495-531: one pass of the loop over the detections of the page.
CropDetection ==
    /\ pstage = "crop"
    /\ detIndex < Len(detections)
    /\ LET det == detections[detIndex + 1]
           fin == finalOf(pageNum, detIndex + 1)
           orig == originalOf(det, pageNum, detIndex + 1)
       IN /\ allQuestions' = afterDetection(allQuestions, det, pageNum, fin, orig)
          /\ warnings' = IF warnsOrphan(allQuestions, det, fin)
                         THEN warnings + 1 ELSE warnings
    /\ detIndex' = detIndex + 1
    /\ UNCHANGED <<notPdfVars, pages, pageNum, detections, dAttempt, dWait, pstage,
                   zipWritten>>

\* Lines 472 and 531: the detections of the page are done, pageNum++.
PageDone ==
    /\ pstage = "crop"
    /\ detIndex >= Len(detections)
    /\ pageNum' = pageNum + 1
    /\ pstage' = "page"
    /\ UNCHANGED <<notPdfVars, pages, detections, detIndex, dAttempt, dWait,
                   allQuestions, warnings, zipWritten>>

\* Lines 540-569: trimming, padding and alignment change the pixels of the
\* question images, not what they show.
PostProcess ==
    /\ pstage = "post"
    /\ pstage' = "zip"
    /\ UNCHANGED <<notPdfVars, pages, pageNum, detections, detIndex, dAttempt, dWait,
                   allQuestions, warnings, zipWritten>>

\* Lines 571-610: the archive is written.
WriteZip ==
    /\ pstage = "zip"
    /\ zipWritten' = TRUE
    /\ pstage' = "done"
    /\ UNCHANGED <<notPdfVars, pages, pageNum, detections, detIndex, dAttempt, dWait,
                   allQuestions, warnings>>

PdfNext ==
    \/ PageLoop
    \/ DetectLoop
    \/ DetectSucceeds
    \/ \E kind \in FailureKinds : DetectFails(kind)
    \/ DetectDelayExpires
    \/ CropDetection
    \/ PageDone
    \/ PostProcess
    \/ WriteZip

\* ===================================================== alignImageWidths
\* (src/scripts/split.js, lines 239-321 and 540-569)

\* Largest number of question images of a document.
MaxQuestions == 3

\* split.js line 629: finalPadding: 10
finalPadding == 10

\* A question image before the post-processing: its id, the size of its
\* image, and what trimWhitespace finds in it: nothing, content narrower and
\* lower than the image, or content up to its edges.
QuestionSet ==
    [id : {"1", "2"}, width : {100, 200}, height : {50, 80},
     content : {"blank", "narrow", "full"}]
QuestionLists == UNION {[1..n -> QuestionSet] : n \in 1..MaxQuestions}

\* trimWhitespace (called at line 248): the bounds of the content.
contentBounds(q) ==
    IF q.content = "blank" THEN [w |-> 0, h |-> 0]
    ELSE IF q.content = "narrow" THEN [w |-> q.width - 40, h |-> q.height - 20]
    ELSE [w |-> q.width, h |-> q.height]

\* Lines 546-551 with trimAndPadImage (239-282): the image is replaced by
\* its content with the padding around it, or kept when it has no content;
\* its size is recorded.
trimAndPad(q) ==
    LET bounds == contentBounds(q)
        res == IF bounds.w = 0 \/ bounds.h = 0
               THEN [width |-> q.width, height |-> q.height]
               ELSE [width |-> bounds.w + finalPadding * 2,
                     height |-> bounds.h + finalPadding * 2]
    IN [id |-> q.id, width |-> res.width, height |-> res.height,
        content |-> IF bounds.w = 0 \/ bounds.h = 0 THEN q.content ELSE "padded",
        processedWidth |-> res.width, processedHeight |-> res.height]

\* Line 561 with the width of the first image taken as the maximum.
processedWidthOfFirst(qs) == qs[1].processedWidth
\* Line 561: Math.max(...allQuestions.map(q => q.processedWidth))
maxProcessedWidth(qs) == SetMax({qs[k].processedWidth : k \in 1..Len(qs)})

\* Lines 293-317, the body of the loop: the question itself when its image
\* has the target width, otherwise a copy whose image is a canvas of the
\* target width and of the height of the image.
alignOne(q, targetWidth) ==
    IF q.width = targetWidth THEN q
    ELSE [q EXCEPT !.width = targetWidth, !.content = "aligned"]

AlignStart ==
    /\ astage = "trim"
    /\ aidx = 0
    /\ maxWidth = 0
    /\ aligned = <<>>

AlignInit ==
    /\ questions \in [1..0 -> {}] \cup
         {[k \in 1..Len(l) |-> [id |-> l[k].id, width |-> l[k].width,
                                height |-> l[k].height, content |-> l[k].content,
                                processedWidth |-> 0, processedHeight |-> 0]] :
            l \in QuestionLists}
    /\ AlignStart

\* The post-processing in a specification that does not run it.
AlignIdle == questions = <<>> /\ AlignStart

\* Line 541, without a question image: nothing to post-process.
NothingToAlign ==
    /\ astage = "trim"
    /\ Len(questions) = 0
    /\ astage' = "done"
    /\ UNCHANGED <<notAlignVars, questions, aidx, maxWidth, aligned>>

\* Lines 546-558: one pass of the loop of step 1.
TrimAndPadNext ==
    /\ astage = "trim"
    /\ aidx < Len(questions)
    /\ questions' = [questions EXCEPT ![aidx + 1] = trimAndPad(@)]
    /\ aidx' = aidx + 1
    /\ UNCHANGED <<notAlignVars, astage, maxWidth, aligned>>

\* Lines 561-566: maxWidth, and the call of alignImageWidths.
FindMaxWidth ==
    /\ astage = "trim"
    /\ Len(questions) > 0
    /\ aidx >= Len(questions)
    /\ maxWidth' = maxProcessedWidth(questions)
    /\ aidx' = 0
    /\ aligned' = <<>>
    /\ astage' = "align"
    /\ UNCHANGED <<notAlignVars, questions>>

\* Lines 293-317: one pass of the loop of alignImageWidths.
AlignNextImage ==
    /\ astage = "align"
    /\ aidx < Len(questions)
    /\ aligned' = Append(aligned, alignOne(questions[aidx + 1], maxWidth))
    /\ aidx' = aidx + 1
    /\ UNCHANGED <<notAlignVars, questions, astage, maxWidth>>

\* Lines 320 and 566: allQuestions = the aligned list.
AlignReturn ==
    /\ astage = "align"
    /\ aidx >= Len(questions)
    /\ astage' = "done"
    /\ UNCHANGED <<notAlignVars, questions, aidx, maxWidth, aligned>>

AlignNext ==
    \/ NothingToAlign
    \/ TrimAndPadNext
    \/ FindMaxWidth
    \/ AlignNextImage
    \/ AlignReturn

\* ------------------------------------------------------- specifications
Init ==
    /\ SchedInit
    /\ DedupIdle
    /\ TrimIdle
    /\ PdfIdle
    /\ AlignIdle

InitDedup ==
    /\ SchedIdle
    /\ DedupInit
    /\ TrimIdle
    /\ PdfIdle
    /\ AlignIdle

InitTrim ==
    /\ SchedIdle
    /\ DedupIdle
    /\ TrimInit
    /\ PdfIdle
    /\ AlignIdle

InitStitch ==
    /\ SchedIdle
    /\ StitchInit
    /\ TrimIdle
    /\ PdfIdle
    /\ AlignIdle

InitResume ==
    /\ ResumeInit
    /\ DedupIdle
    /\ TrimIdle
    /\ PdfIdle
    /\ AlignIdle

InitAnyConcurrency ==
    /\ AnyConcurrencyInit
    /\ DedupIdle
    /\ TrimIdle
    /\ PdfIdle
    /\ AlignIdle

InitPdf ==
    /\ SchedIdle
    /\ DedupIdle
    /\ TrimIdle
    /\ PdfInit
    /\ AlignIdle

InitAlign ==
    /\ SchedIdle
    /\ DedupIdle
    /\ TrimIdle
    /\ PdfIdle
    /\ AlignInit

Next ==
    \/ LoopTest
    \/ StartRound
    \/ RoundEnd
    \/ DelayExpires
    \/ Interrupt
    \/ ForceExit
    \/ \E j \in Files : PipelineSucceeds(j)
    \/ \E j \in Files : PipelineFails(j)
    \/ \E j \in Files : WriteLands(j)
    \/ \E j \in Files : WriteTears(j)
    \/ \E j \in Files : SaveReturnsOk(j)
    \/ \E j \in Files : SaveReturnsErr(j)
    \/ \E j \in Files : BackoffExpires(j)

\* The batch run without --force in a directory where earlier runs have
\* left files.
SpecResume == InitResume /\ [][Next]_vars

\* The same run with any value of --concurrency.
SpecAnyConcurrency == InitAnyConcurrency /\ [][Next]_vars

\* A step of a job: a promise or a timer that processWithRetry awaits
\* settles and its continuation runs.
JobStep ==
    \E j \in Files :
        \/ PipelineSucceeds(j)
        \/ PipelineFails(j)
        \/ WriteLands(j)
        \/ WriteTears(j)
        \/ SaveReturnsOk(j)
        \/ SaveReturnsErr(j)
        \/ BackoffExpires(j)

\* The same run where every job terminates: no pipeline call, write of the
\* state file or backoff timer stays pending for ever.
SpecResumeFair == InitResume /\ [][Next]_vars /\ WF_vars(JobStep)

\* The batch run: main with its jobs.
Spec == Init /\ [][Next]_vars

\* One call of cropAndStitchImage on any list of boxes.
SpecDedup == InitDedup /\ [][DedupNext]_vars

\* One call of cropAndStitchImage on boxes that give fragments of several
\* positions and sizes, with several settings.
SpecStitch == InitStitch /\ [][DedupNext]_vars

\* The post-processing of processPdf on any list of question images.
SpecAlign == InitAlign /\ [][AlignNext]_vars

\* processPdf on any document, with detection attempts that fail or succeed.
SpecPdf == InitPdf /\ [][PdfNext]_vars

\* getTrimmedBounds on any crop, and again on the sub-image it returns.
SpecTrim == InitTrim /\ [][TrimNext]_vars

\* ================================================================ claims
\* The round's batch promise has resolved and main has not started the next
\* round.
RoundOver == phase = "batch" /\ resolved

\* C1: during processBatch the number of jobs started and not yet finished
\* (activeCount, the jobs in the Running state) never exceeds `concurrency`.
C1_ConcurrencyBound ==
    /\ activeCount = Cardinality(Running)
    /\ activeCount <= concurrency

\* C1 witness: a job has finished, and the pool is full again.
C1_Witness ==
    /\ concurrency >= 1
    /\ activeCount = concurrency
    /\ \E j \in Files : pc[j] \in {"succeeded", "failed"}

\* C2: the round loop runs at most maxRounds rounds, and it stops right
\* after a round whose nonzero failure count equals that of the previous
\* round, without starting another round.
C2_RoundTermination ==
    /\ [](/\ roundNumber <= maxRounds + 1
          /\ (phase \in {"prep", "batch"} => roundNumber <= maxRounds))
    /\ [][(/\ RoundOver
           /\ Len(results.failed) > 0
           /\ Len(results.failed) = previousFailedCount
           /\ phase' # phase)
          => (phase' \in {"done", "exited"} /\ roundNumber' = roundNumber)]_vars

\* C2 witness: the run has ended because maxRounds rounds were run.
C2_Witness == phase = "done" /\ roundNumber = maxRounds + 1

\* C3: once all jobs of a round have finished, the persisted state file
\* equals the in-memory BatchState, whatever the order in which the
\* asynchronous writes complete.
C3_PersistedEqualsMemory == RoundOver => file = JSONstringify(state)

\* Exactly one document fails on every attempt and every other succeeds.
OneAlwaysFails(f) ==
    /\ outcome[f] = "fail"
    /\ \A g \in Files \ {f} : outcome[g] = "ok"

\* C4: one document fails on every attempt, every other succeeds,
\* concurrency >= 1: when the run ends, `completed` holds the path of every
\* other document and failed[<failing path>].attempts = maxRetries.
C4_ScenarioC ==
    \A f \in Files :
        (/\ phase = "done"
         /\ ~interrupted
         /\ concurrency >= 1
         /\ OneAlwaysFails(f))
        => (/\ \A g \in Files \ {f} : state.completed[g] >= 1
            /\ state.failed[f] = maxRetries)

\* C5: after the first interrupt no new round is started and no job that
\* has not started yet is dispatched.
C5_InterruptStopsDispatch ==
    [][interrupted =>
        (/\ (phase = "loop" => phase' # "prep")
         /\ \A j \in Files : pc[j] = "pending" => pc'[j] = "pending")]_vars

\* C6: a document whose pipeline throws on every attempt does not end the
\* round: the error is recorded under `failed`, and every document of the
\* round is started and reaches Succeeded or Failed.
C6_ErrorsContained ==
    RoundOver =>
        \A j \in SeqToSet(pdfFiles) :
            /\ pc[j] \in {"succeeded", "failed"}
            /\ (pc[j] = "succeeded") = (j \in SeqToSet(results.success))
            /\ (pc[j] = "failed") = (j \in SeqToSet(results.failed))
            /\ outcome[j] = "fail" => pc[j] = "failed" /\ state.failed[j] = maxRetries

\* C6 witness: with one slot, the first document has failed on every
\* attempt and the second was still started and has succeeded.
C6_Witness ==
    /\ RoundOver
    /\ concurrency = 1
    /\ outcome[1] = "fail"
    /\ pc[1] = "failed"
    /\ pc[2] = "succeeded"

\* C7: after every attempt the BatchState with that attempt's change is
\* handed to saveState, and the write has completed before the job goes on
\* to its backoff delay, to its result, or to releasing its slot.
C7_SavedBeforeFinished ==
    \A j \in Files :
        /\ (pc[j] = "savingOk" /\ writes[j].tag = "write")
              => /\ writes[j].text.content.completed[j] >= 1
                 /\ writes[j].text.content.failed[j] = 0
        /\ (pc[j] = "savingErr" /\ writes[j].tag = "write")
              => writes[j].text.content.failed[j] = attempt[j]
        /\ pc[j] \notin {"savingOk", "savingErr"} => writes[j] = NoWrite

\* C7 witness: a job is in its backoff delay, its failed attempt is on disk.
C7_Witness ==
    \E j \in Files :
        /\ pc[j] = "backoff"
        /\ file.tag = "json"
        /\ file.content.failed[j] = attempt[j]

\* C8: no surviving box is contained, within the tolerance, in any other
\* surviving box.
C8_NoSurvivorContained ==
    stage \in {"draw", "done"} =>
        \A a, b \in 1..Len(finalBoxes) :
            a # b => ~isContained(finalBoxes[a], finalBoxes[b])

\* C8 witness: a box was dropped and two boxes survive.
C8_Witness ==
    /\ stage = "done"
    /\ Len(finalBoxes) >= 2
    /\ Len(finalBoxes) < Len(boxes)

\* Scenario A: B contains A, C is apart from both.
BoxA == <<0, 0, 100, 100>>
BoxB == <<0, 0, 100, 300>>
BoxC == <<200, 0, 300, 100>>

\* C9: box i is dropped exactly when some other box j contains it and
\* either i does not contain j or i has the larger index; so the later of
\* two near-duplicates is dropped, a strictly contained box is dropped, a
\* box contained in no other survives, and <<A, B, C>> gives <<B, C>>.
C9_DropRule ==
    stage \in {"filter", "draw", "done"} =>
        LET n == Len(boxes)
            in(i, j) == isContained(boxes[i + 1], boxes[j + 1])
        IN /\ indicesToDrop =
                {i \in 0..(n - 1) :
                    \E j \in 0..(n - 1) :
                        j # i /\ in(i, j) /\ (~in(j, i) \/ i > j)}
           /\ \A i, j \in 0..(n - 1) :
                /\ (i > j /\ in(i, j) /\ in(j, i)) => i \in indicesToDrop
                /\ (i # j /\ in(i, j) /\ ~in(j, i)) => i \in indicesToDrop
           /\ \A i \in 0..(n - 1) :
                (\A j \in 0..(n - 1) : j # i => ~in(i, j)) => i \notin indicesToDrop
           /\ (stage = "done" /\ boxes = <<BoxA, BoxB, BoxC>>)
                => finalBoxes = <<BoxB, BoxC>>

\* C9 witness: scenario A has run.
C9_Witness ==
    /\ stage = "done"
    /\ boxes = <<BoxA, BoxB, BoxC>>
    /\ finalBoxes = <<BoxB, BoxC>>

\* C10: the surviving boxes are a subsequence of the input list, in the
\* same relative order, and the fragments are composited in that order.
C10_OrderPreserved ==
    stage \in {"draw", "done"} =>
        /\ \E f \in [1..Len(finalBoxes) -> 1..Len(boxes)] :
             /\ \A k, l \in 1..Len(finalBoxes) : k < l => f[k] < f[l]
             /\ \A k \in 1..Len(finalBoxes) : finalBoxes[k] = boxes[f[k]]
             /\ {f[k] - 1 : k \in 1..Len(finalBoxes)}
                    = (0..(Len(boxes) - 1)) \ indicesToDrop
        /\ Len(composited) = fragIndex
        /\ \A k \in 1..Len(composited) : composited[k].box = finalBoxes[k]
        /\ stage = "done" => Len(composited) = Len(finalBoxes)

\* C10 witness: the first box was dropped and two different boxes after it
\* were drawn.
C10_Witness ==
    /\ stage = "done"
    /\ 0 \in indicesToDrop
    /\ Len(composited) = 2
    /\ composited[1].box # composited[2].box

\* The rectangle that selects the whole of the sub-image given to the
\* second call.
WholeSubImage == [x |-> 0, y |-> 0, w |-> returned[1].w, h |-> returned[1].h]

TopRun ==
    CHOOSE k \in 0..th : /\ \A y \in 0..(k - 1) : rowHasInk(y)
                         /\ (k = th \/ ~rowHasInk(k))
BottomRun ==
    CHOOSE k \in 0..th : /\ \A y \in (th - k)..(th - 1) : rowHasInk(y)
                         /\ (k = th \/ ~rowHasInk(th - k - 1))
LeftRun ==
    CHOOSE k \in 0..tw : /\ \A x \in 0..(k - 1) : colHasInk(x)
                         /\ (k = tw \/ ~colHasInk(k))
RightRun ==
    CHOOSE k \in 0..tw : /\ \A x \in (tw - k)..(tw - 1) : colHasInk(x)
                         /\ (k = tw \/ ~colHasInk(tw - k - 1))

\* A call on a crop of at least 1 by 1 has returned.
TrimReturned == tstage = "done" /\ tw >= 1 /\ th >= 1

\* The rectangle of the call that has just returned.
LastRect == returned[Len(returned)]

StitchFragments == processedFragments(finalBoxes)
SmallestInkX == SetMin({StitchFragments[k].absInkX : k \in 1..Len(StitchFragments)})

\* A canvas has been created for a non-empty list of fragments.
CanvasCreated == stage \in {"draw", "done"} /\ canvas # NoCanvas

\* C13: the width of the canvas is max_i(absInkX_i - minInkX + trimWidth_i)
\* + leftPad + rightPad; fragment i is drawn at x = leftPad + (absInkX_i -
\* minInkX); so the fragment with the smallest ink x is drawn at leftPad and
\* the right edge of every fragment is at most width - rightPad.
C13_WidthLaw ==
    CanvasCreated =>
        /\ canvas.w =
             SetMax({StitchFragments[k].absInkX - SmallestInkX + StitchFragments[k].trim.w :
                        k \in 1..Len(StitchFragments)})
               + settings.canvasPaddingLeft + settings.canvasPaddingRight
        /\ \A k \in 1..Len(composited) :
             /\ composited[k].x =
                  settings.canvasPaddingLeft + (StitchFragments[k].absInkX - SmallestInkX)
             /\ composited[k].x >= settings.canvasPaddingLeft
             /\ composited[k].x + composited[k].w <= canvas.w - settings.canvasPaddingRight
        /\ stage = "done" =>
             \E k \in 1..Len(composited) : composited[k].x = settings.canvasPaddingLeft

\* Two fragments with ink x 40 and 10 have been composited with paddings:
\* the first is drawn at leftPad + 30, the second at leftPad.
C13_Witness ==
    /\ stage = "done"
    /\ Len(composited) = 2
    /\ StitchFragments[1].absInkX = 40
    /\ StitchFragments[2].absInkX = 10
    /\ settings.canvasPaddingLeft = 10
    /\ composited[1].x = settings.canvasPaddingLeft + 30
    /\ composited[2].x = settings.canvasPaddingLeft

\* C14: a fragment whose trimmed width or height is zero is dropped before
\* compositing, and a call all of whose fragments are such returns
\* {final: null}.
C14_DegenerateDropped ==
    stage = "done" =>
        /\ \A k \in 1..Len(composited) : composited[k].w > 0 /\ composited[k].h > 0
        /\ (\A k \in 1..Len(finalBoxes) :
                LET f == Fragment(finalBoxes[k], runs[k])
                IN f.trim.w = 0 \/ f.trim.h = 0) => final = "null"

\* The loop over the detections is at a detection; the detection.
AtDetection == pstage = "crop" /\ detIndex < Len(detections)
ThisDetection == detections[detIndex + 1]

\* C15: a continuation processed while the document has no question image
\* is discarded with a warning: nothing is thrown, the list of question
\* images stays empty, and the loop goes on to the next detection.
C15_OrphanContinuationDiscarded ==
    [][(AtDetection /\ ThisDetection.id = "continuation" /\ allQuestions = <<>>)
        => /\ allQuestions' = <<>>
           /\ warnings' = warnings + 1
           /\ pstage' = "crop"
           /\ detIndex' = detIndex + 1]_vars

\* The first detection of the document was a continuation, it was
\* discarded with a warning, and a later detection gave the first question
\* image; the archive is written.
C15_Witness ==
    /\ pstage = "done"
    /\ Len(pages[1]) > 0
    /\ pages[1][1].id = "continuation"
    /\ warnings = 1
    /\ Len(allQuestions) = 1
    /\ allQuestions[1].dataUrl # finalOf(1, 1)

\* C16: only a detection that is not a continuation adds a question image
\* (at the end of the list); a continuation changes only the images of the
\* last question image, and leaves the number, the order, the ids and the
\* pageNumbers of the question images as they are; no other step changes
\* the list.
C16_ContinuationFrame ==
    [][IF AtDetection
       THEN IF ThisDetection.id = "continuation"
            THEN /\ Len(allQuestions') = Len(allQuestions)
                 /\ \A k \in 1..Len(allQuestions) :
                      /\ allQuestions'[k].id = allQuestions[k].id
                      /\ allQuestions'[k].pageNumber = allQuestions[k].pageNumber
                      /\ k < Len(allQuestions) => allQuestions'[k] = allQuestions[k]
            ELSE /\ Len(allQuestions') = Len(allQuestions) + 1
                 /\ SubSeq(allQuestions', 1, Len(allQuestions)) = allQuestions
                 /\ allQuestions'[Len(allQuestions')].id = ThisDetection.id
                 /\ allQuestions'[Len(allQuestions')].pageNumber = pageNum
       ELSE allQuestions' = allQuestions]_vars

\* Two question images were added and a continuation was then merged into
\* the second one, which now shows two detections; the first is unchanged.
C16_Witness ==
    /\ pstage = "done"
    /\ Len(allQuestions) = 2
    /\ allQuestions[1].dataUrl = finalOf(1, 1)
    /\ Len(allQuestions[2].dataUrl) = 2
    /\ allQuestions[2].pageNumber = 1

\* C20: when every attempt of the detection of a page has failed,
\* detectQuestionsOnPage throws instead of returning an empty list,
\* processPdf rethrows without having written the archive, and nothing more
\* is done: no later page is processed.
C20_ExhaustedDetectionAborts ==
    /\ [](dAttempt >= detectMaxRetries => pstage = "threw")
    /\ [](pstage = "threw" => /\ ~zipWritten
                              /\ dAttempt = detectMaxRetries
                              /\ pageNum <= Len(pages))
    /\ [][pstage # "threw"]_vars

\* The detection of page 1 of a document of two pages failed on each of
\* its attempts.
C20_Witness ==
    /\ pstage = "threw"
    /\ pageNum = 1
    /\ Len(pages) = 2
    /\ dAttempt = detectMaxRetries

\* main has returned after a round without a failed document, or without a
\* round because nothing was left to process: every document has its output.
EndedWithoutFailure ==
    /\ phase = "done"
    /\ outputs = Files
    /\ results.failed = <<>>

\* C17: when a run ends with no failed document (every document has its
\* output), the state file does not exist afterwards.
C17_StateFileRemoved == EndedWithoutFailure => file = NoFile

\* C18: the list handed to processBatch at the start of a round is, without
\* --force, the listed documents without output archive, in the order of
\* the listing, and with --force every listed document; without --force and
\* with no document left, no batch is started.
C18_PendingFilesOnly ==
    [][(phase = "prep" /\ phase' \in {"batch", "done"}) =>
         LET expected == IF force THEN Files ELSE Files \ outputs IN
         IF expected = {} THEN phase' = "done"
         ELSE /\ phase' = "batch"
              /\ SeqToSet(pdfFiles') = expected
              /\ Len(pdfFiles') = Cardinality(expected)
              /\ \A a, b \in 1..Len(pdfFiles') : a < b => pdfFiles'[a] < pdfFiles'[b]]_vars

\* Without --force, document 1 succeeded in round 1 and round 2 processes
\* document 2 alone.
C18_Witness ==
    /\ ~force
    /\ roundNumber = 2
    /\ phase = "batch"
    /\ 1 \in outputs
    /\ pdfFiles = <<2>>

\* C19: processWithRetry calls the pipeline at most maxRetries times and
\* not again after a success; it returns a failure only after maxRetries
\* failed attempts; after the k-th failed attempt, k < maxRetries, it waits
\* 2^k seconds, and after the last one it returns without waiting.
C19_RetryAndBackoff ==
    /\ [](\A j \in Files :
            /\ attempt[j] <= maxRetries
            /\ pc[j] = "failed" => attempt[j] = maxRetries /\ waitTime[j] = 0
            /\ pc[j] = "backoff" =>
                 attempt[j] < maxRetries /\ waitTime[j] = (2 ^ attempt[j]) * 1000
            /\ pc[j] # "backoff" => waitTime[j] = 0)
    /\ [][\A j \in Files :
            /\ (phase = "batch" /\ pc[j] = "savingOk" /\ pc'[j] # pc[j])
                  => pc'[j] = "succeeded"
            /\ (phase = "batch" /\ pc[j] = "savingErr" /\ pc'[j] # pc[j])
                  => pc'[j] = (IF attempt[j] < maxRetries THEN "backoff" ELSE "failed")
            /\ (phase = "batch" /\ pc[j] = "succeeded")
                  => pc'[j] = "succeeded" /\ attempt'[j] = attempt[j]]_vars

\* With --retries 2 a job failed twice: it waited 2 seconds after the first
\* failure and has returned its failure after the second.
C19_Witness ==
    /\ maxRetries = 2
    /\ \E j \in Files : pc[j] = "failed" /\ attempt[j] = 2
    /\ \E j \in Files : pc[j] = "backoff" /\ waitTime[j] = 2000

\* C21: after a failed attempt of the detection, the wait before the next
\* attempt is strictly longer for a rate-limit failure than for any other
\* failure, whatever the number of the attempt.
C21_RateLimitWaitsLonger ==
    pstage = "waiting" =>
        detectWaitTime("rateLimit", dAttempt) > detectWaitTime("other", dAttempt)

\* alignImageWidths has returned for a non-empty list.
Aligned == astage = "done" /\ Len(questions) > 0

\* C22: after the alignment every image has the largest width of the set,
\* a question whose image had that width is returned as it was, and the
\* number, the order, the ids and the heights of the images are unchanged.
C22_AlignedToMaxWidth ==
    Aligned =>
        /\ Len(aligned) = Len(questions)
        /\ \A k \in 1..Len(questions) :
             /\ aligned[k].width >= questions[k].width
             /\ \A m \in 1..Len(questions) : aligned[k].width >= questions[m].width
             /\ \E m \in 1..Len(questions) : aligned[k].width = questions[m].width
             /\ aligned[k].id = questions[k].id
             /\ aligned[k].height = questions[k].height
             /\ (\A m \in 1..Len(questions) : questions[k].width >= questions[m].width)
                    => aligned[k] = questions[k]

\* Three images of two widths and two heights were aligned: one was widened
\* and one was returned as it was.
C22_Witness ==
    /\ Aligned
    /\ Len(aligned) = 3
    /\ \E k \in 1..3 : aligned[k] # questions[k]
    /\ \E k \in 1..3 : aligned[k] = questions[k]
    /\ \E k, m \in 1..3 : aligned[k].height # aligned[m].height

\* C23: a question image that has an originalDataUrl shows in it the same
\* detections as in its dataUrl, after any sequence of merges of
\* continuations.
C23_RawCoversSameDetections ==
    \A k \in 1..Len(allQuestions) :
        allQuestions[k].originalDataUrl # NullImage
            => allQuestions[k].originalDataUrl = allQuestions[k].dataUrl

\* C24: the crop rectangle of every box lies inside the page and is the
\* pixel rectangle of the box grown by cropPadding on its four sides and cut
\* at the edges of the page: its left and top sides are at max(0, box side -
\* cropPadding), its right and bottom sides at min(page side, box side +
\* cropPadding), also when the left or the top side is cut at 0.
C24_CropIsPaddedBoxInPage ==
    \A k \in 1..Len(StitchFragments) :
        LET f == StitchFragments[k]
            pad == settings.cropPadding
        IN /\ 0 <= f.x /\ f.x + f.w <= originalWidth
           /\ 0 <= f.y /\ f.y + f.h <= originalHeight
           /\ f.x = Max(0, Scaled(f.box[2], originalWidth) - pad)
           /\ f.y = Max(0, Scaled(f.box[1], originalHeight) - pad)
           /\ f.x + f.w = Min(originalWidth, Scaled(f.box[4], originalWidth) + pad)
           /\ f.y + f.h = Min(originalHeight, Scaled(f.box[3], originalHeight) + pad)

\* The files of the list whose processWithRetry has been called.
Dispatched == {j \in Files : pc[j] \notin {"none", "pending"}}

\* C25: while a batch runs, the dispatched files are the first `index`
\* files of the list, activeCount counts the running jobs, and either every
\* file has been dispatched or exactly `concurrency` jobs are running; when
\* a job finishes and files remain, the next file of the list is started in
\* the same step.
C25_WorkConserving ==
    /\ [](phase = "batch" =>
            /\ Dispatched = {pdfFiles[k] : k \in 1..index}
            /\ activeCount = Cardinality(Running)
            /\ (index >= Len(pdfFiles) \/ activeCount = concurrency))
    /\ [][(phase = "batch" /\ index < Len(pdfFiles)
            /\ \E j \in Running : pc'[j] \in {"succeeded", "failed"})
          => /\ index' = index + 1
             /\ pc'[pdfFiles[index + 1]] = "running"
             /\ attempt'[pdfFiles[index + 1]] = 1]_vars

\* With concurrency 1 and two files, the first file has finished and the
\* second one is running.
C25_Witness ==
    /\ phase = "batch"
    /\ concurrency = 1
    /\ Len(pdfFiles) = 2
    /\ pc[pdfFiles[1]] \in {"succeeded", "failed"}
    /\ pc[pdfFiles[2]] = "running"
    /\ index = 2
    /\ activeCount = 1

\* The files in results.success and results.failed, in the order of the pushes.
Reported == results.success \o results.failed

\* C26: with concurrency >= 1 a batch whose jobs terminate resolves (unless
\* the process is made to exit); it resolves only when every file of the
\* list has finished, no job settles after it has resolved, and at every
\* moment a file is in results.success exactly when its job succeeded, in
\* results.failed exactly when its job failed, and never twice.
C26_ResolvesOnceAfterAllJobs ==
    /\ [](phase = "batch" =>
            /\ \A j \in Files :
                 /\ Cardinality({k \in 1..Len(Reported) : Reported[k] = j}) <= 1
                 /\ j \in SeqToSet(results.success) <=> pc[j] = "succeeded"
                 /\ j \in SeqToSet(results.failed) <=> pc[j] = "failed"
            /\ resolved =>
                 /\ activeCount = 0
                 /\ SeqToSet(Reported) = SeqToSet(pdfFiles)
                 /\ Len(Reported) = Len(pdfFiles))
    /\ [][(\E j \in Files : pc'[j] # pc[j] /\ pc'[j] \in {"succeeded", "failed"})
            => ~resolved]_vars
    /\ ((phase = "batch" /\ concurrency >= 1) ~> (resolved \/ phase = "exited"))

\* A batch of two files has resolved with one file in results.success and
\* the other in results.failed.
C26_Witness ==
    /\ phase = "batch"
    /\ resolved
    /\ concurrency >= 1
    /\ Len(pdfFiles) = 2
    /\ Len(results.success) = 1
    /\ Len(results.failed) = 1

\* processBatch has been called with a concurrency of 0 or less.
BatchWithoutSlot == phase = "batch" /\ concurrency <= 0

\* C27: with a concurrency of 0 or less, processBatch on a non-empty list
\* dispatches no job and never resolves: main stays at `await processBatch`
\* (no summary, no later round, no end of main) until the process is made
\* to exit.
C27_NoSlotNeverResolves ==
    /\ [](BatchWithoutSlot =>
            /\ Len(pdfFiles) > 0
            /\ index = 0
            /\ activeCount = 0
            /\ ~resolved
            /\ \A j \in Files : pc[j] \in {"none", "pending"}
            /\ results = [success |-> <<>>, failed |-> <<>>])
    /\ [][BatchWithoutSlot => phase' \in {"batch", "exited"}]_vars

\* processBatch was called with concurrency -1 and two files, and a SIGINT
\* has arrived since: the batch is still unresolved.
C27_Witness ==
    /\ BatchWithoutSlot
    /\ concurrency = -1
    /\ Len(pdfFiles) = 2
    /\ interrupted

\* C28: after the deduplication every dropped box is contained, within the
\* tolerance, in a box that was kept; so a list with a box keeps a box.
C28_DroppedInsideSurvivor ==
    stage \in {"fragments", "draw", "done"} =>
        /\ \A i \in indicesToDrop :
             \E k \in 1..Len(finalBoxes) : isContained(boxes[i + 1], finalBoxes[k])
        /\ Len(boxes) > 0 => Len(finalBoxes) > 0

\* C29: in the BatchState every path occurs at most once in `completed`
\* and the keys of `failed` taken together: `completed` holds no path twice
\* and no path is both in `completed` and a key of `failed`.
C29_PathRecordedOnce ==
    \A p \in Files :
        state.completed[p] + (IF state.failed[p] > 0 THEN 1 ELSE 0) <= 1

\* The round loop is about to stop for no progress: the batch has resolved
\* with as many failures as the previous round.
StopsForNoProgress ==
    /\ phase = "batch"
    /\ resolved
    /\ Len(results.failed) > 0
    /\ NoProgress(Len(results.failed), previousFailedCount)

\* C30: when the round loop stops for no progress, the documents that
\* failed in this round are the documents that failed in the previous round.
C30_SameFilesKeepFailing ==
    StopsForNoProgress => SeqToSet(results.failed) = previousFailed

====
